---- MODULE Spec2Model ----
(***************************************************************************)
(* hotmine: the withdrawal workflow, the withdrawal gate and the balance   *)
(* ledger, as implemented by models.py, views.py and admin.py.             *)
(*                                                                         *)
(* The persistent store is the state: one sequence per table, a row's id   *)
(* being its index (ids are handed out in creation order and no modelled   *)
(* operation deletes a row).  Every handler is one action: it reads the    *)
(* store, writes it and leaves its answer in `response`.                   *)
(***************************************************************************)
EXTENDS Integers, Sequences, FiniteSets, TLC

(* ------------------------------ bounds --------------------------------- *)

\* Rows the WithdrawalRequest table may hold.
MaxReq == 2

\* Last instant of the clock that timezone.now() reads.
MaxTime == 2

\* Rows each of the Amount / Totalearnings / totalwithdraw tables may hold.
MaxRows == 1

(* ------------------------------ domains -------------------------------- *)

\* auth.User rows that own requests, profiles and balances.
Users == {"u1", "u2"}

\* Staff users an admin action or a mark_as_* call may name as processor.
Admins == {"a1"}

\* processed_by = NULL (models.py: null=True).
NoUser == "NULL"

\* processed_at = NULL.
NoTime == -1

\* transaction_id / rejection_reason / withdrawal_disabled_reason = NULL.
NoText == "NULL"

\* WITHDRAWAL_STATUS_CHOICES
WITHDRAWAL_STATUS_CHOICES ==
    {"pending", "processing", "completed", "rejected", "cancelled"}

\* WITHDRAWAL_METHOD_CHOICES, the ones the model submits.
WITHDRAWAL_METHOD_CHOICES == {"bank"}

\* Amounts submitted with a request.
RequestAmounts == {10}

\* Values an admin stores in a balance table.
BalanceValues == {50}

\* transaction_id arguments of mark_as_completed: None, "" and a real id.
TxArgs == {NoText, "", "tx1"}

\* reason arguments of mark_as_rejected: the empty string and a real reason.
ReasonArgs == {"", "fraud"}

\* processed_by arguments: None (the default) or a staff user.
ProcessorArgs == {NoUser} \cup Admins

\* Reasons an admin types into the profile form.
ProfileReasons == {NoText, "kyc"}

(* ------------------------------- state --------------------------------- *)

VARIABLES
    withdrawal_requests,  \* WithdrawalRequest table: Seq of rows, id = index
    userprofile,          \* UserProfile of each user (created by the post_save signal)
    amount_rows,          \* Amount table
    totalearnings_rows,   \* Totalearnings table
    totalwithdraw_rows,   \* totalwithdraw table
    now,                  \* the clock
    response,             \* what the last view or admin action answered
    cancel_inflight,      \* a cancel_withdrawal request between its read and its save
    profiled,             \* the users whose UserProfile row exists
    investment_plans,     \* InvestmentPlan table (with the wallet each plan points to)
    investments,          \* Investment table: Seq of rows, id = index
    users,                \* auth User table: the usernames that exist
    phone_number,         \* UserProfile.phone_number of each user's profile
    crypto_wallets        \* CryptoWallet table: the wallet_address of each wallet

vars == <<withdrawal_requests, userprofile, amount_rows, totalearnings_rows,
          totalwithdraw_rows, now, response, cancel_inflight, profiled,
          investment_plans, investments, users, phone_number, crypto_wallets>>

balances == <<amount_rows, totalearnings_rows, totalwithdraw_rows>>

\* What the withdrawal handlers of one request at a time leave alone.
aside ==
    <<cancel_inflight, profiled, investment_plans, investments, users, phone_number,
      crypto_wallets>>

\* A handler's answer: which handler, its outcome, the rows an admin selected
\* for it ({} for a view), the count its message reports, and the template
\* context it rendered (<<>> when it rendered none).
Response(op, outcome, selected, count, context) ==
    [op |-> op, outcome |-> outcome, selected |-> selected, count |-> count,
     context |-> context]

\* A freshly inserted WithdrawalRequest row: the field defaults of the model.
NewWithdrawalRequest(u, amt, method, st) ==
    [user              |-> u,
     amount            |-> amt,
     withdrawal_method |-> method,
     account_details   |-> "acct",
     status            |-> st,
     processed_at      |-> NoTime,
     processed_by      |-> NoUser,
     transaction_id    |-> NoText,
     rejection_reason  |-> NoText]

\* A freshly created UserProfile: withdrawal_enabled defaults to True.
NewUserProfile ==
    [withdrawal_enabled |-> TRUE, withdrawal_disabled_reason |-> NoText]

\* The CryptoWallet rows, by wallet_type (unique), and the address each is
\* entered with.
CryptoWallets == {"BTC"}

NewCryptoWallets == [wallet \in CryptoWallets |-> "addr_" \o wallet]

\* ids of the rows in the WithdrawalRequest table.
RequestIds == DOMAIN withdrawal_requests

Init ==
    /\ withdrawal_requests = <<>>
    /\ userprofile = [u \in Users |-> NewUserProfile]
    /\ amount_rows = <<>>
    /\ totalearnings_rows = <<>>
    /\ totalwithdraw_rows = <<>>
    /\ now = 0
    /\ response = Response("none", "none", {}, 0, <<>>)
    /\ cancel_inflight = <<>>
    /\ profiled = Users
    /\ users = Users
    /\ phone_number = [u \in Users |-> NoText]
    /\ crypto_wallets = NewCryptoWallets
    /\ investment_plans = <<>>
    /\ investments = <<>>

(* ------------------------------ the clock ------------------------------ *)

\* Time passes between two handlers.
Tick ==
    /\ now < MaxTime
    /\ now' = now + 1
    /\ UNCHANGED <<withdrawal_requests, userprofile, balances, response, aside>>

(* ------------------- WithdrawalRequest (models.py) --------------------- *)

\* The statuses can_be_cancelled accepts.
CancellableStatuses == {"pending", "processing"}

\* WithdrawalRequest.can_be_cancelled of row w.
can_be_cancelled(w) == withdrawal_requests[w].status \in CancellableStatuses

\* Python truthiness of an optional string argument: None and "" are falsy.
Truthy(text) == text # NoText /\ text # ""

\* The table after row w is saved as `row`.
SaveWithoutAmount(w, row) ==
    [withdrawal_requests EXCEPT ![w] = [row EXCEPT !.amount = 0]]

Save(w, row) == [withdrawal_requests EXCEPT ![w] = row]

\* WithdrawalRequest.mark_as_completed(processed_by, transaction_id) on row w:
\* no condition on the current status; every assignment, then save().
mark_as_completed(w, processed_by, transaction_id) ==
    /\ w \in RequestIds
    /\ withdrawal_requests' = Save(w,
           [withdrawal_requests[w] EXCEPT
               !.status = "completed",
               !.processed_at = now,
               !.processed_by = processed_by,
               !.transaction_id = IF Truthy(transaction_id) THEN transaction_id ELSE @])
    /\ response' = Response("mark_as_completed", "saved", {}, 0, <<>>)
    /\ UNCHANGED <<userprofile, balances, now, aside>>

\* WithdrawalRequest.mark_as_rejected(reason, processed_by) on row w.
mark_as_rejected(w, reason, processed_by) ==
    /\ w \in RequestIds
    /\ withdrawal_requests' = Save(w,
           [withdrawal_requests[w] EXCEPT
               !.status = "rejected",
               !.rejection_reason = reason,
               !.processed_at = now,
               !.processed_by = processed_by])
    /\ response' = Response("mark_as_rejected", "saved", {}, 0, <<>>)
    /\ UNCHANGED <<userprofile, balances, now, aside>>

(* ----------------- WithdrawalRequestAdmin (admin.py) ------------------- *)

\* The admin's add form: a new row with the submitted user, amount, method and
\* status, every other field at its default.  The model submits the two
\* statuses a request is in before any transition.
WithdrawalRequestAdmin_add(u, amt, method, st) ==
    /\ Len(withdrawal_requests) < MaxReq
    /\ withdrawal_requests' =
           Append(withdrawal_requests, NewWithdrawalRequest(u, amt, method, st))
    /\ UNCHANGED <<userprofile, balances, now, response, aside>>

\* queryset.filter(status__in=statuses) over the selected rows.
UnfilteredSelection(selected, statuses) == selected

FilterStatusIn(selected, statuses) ==
    {w \in selected : withdrawal_requests[w].status \in statuses}

\* queryset.update(status=st) over `rows`: one UPDATE of the status column.
UpdateStatus(rows, st) ==
    [w \in RequestIds |->
        IF w \in rows
        THEN [withdrawal_requests[w] EXCEPT !.status = st]
        ELSE withdrawal_requests[w]]

\* Bulk action "Approve selected withdrawals" over the selected rows.
approve_withdrawals(selected) ==
    LET rows == FilterStatusIn(selected, {"pending", "processing"})
    IN  /\ selected # {}
        /\ selected \subseteq RequestIds
        /\ withdrawal_requests' = UpdateStatus(rows, "completed")
        /\ response' = Response("approve_withdrawals", "SUCCESS", selected,
                                Cardinality(rows), <<>>)
        /\ UNCHANGED <<userprofile, balances, now, aside>>

\* Bulk action "Reject selected withdrawals" over the selected rows.
reject_withdrawals(selected) ==
    LET rows == FilterStatusIn(selected, {"pending", "processing"})
    IN  /\ selected # {}
        /\ selected \subseteq RequestIds
        /\ withdrawal_requests' = UpdateStatus(rows, "rejected")
        /\ response' = Response("reject_withdrawals", "WARNING", selected,
                                Cardinality(rows), <<>>)
        /\ UNCHANGED <<userprofile, balances, now, aside>>

(* ------------------------ cancel_withdrawal (views.py) ----------------- *)

\* get_object_or_404(WithdrawalRequest, id=withdrawal_id, user=request.user):
\* TRUE when the row is found.
FoundById(user, withdrawal_id) == withdrawal_id \in RequestIds

get_object_or_404(user, withdrawal_id) ==
    /\ withdrawal_id \in RequestIds
    /\ withdrawal_requests[withdrawal_id].user = user

\* The commented-out refund of cancel_withdrawal, were it enabled:
\* Amount.objects.get(user=...) needs exactly one row, whose amount grows.
AmountRowsOf(user) == {i \in DOMAIN amount_rows : amount_rows[i].user = user}

cancel_withdrawal_with_refund(user, withdrawal_id) ==
    /\ get_object_or_404(user, withdrawal_id)
    /\ can_be_cancelled(withdrawal_id)
    /\ Cardinality(AmountRowsOf(user)) = 1
    /\ withdrawal_requests' =
           Save(withdrawal_id,
                [withdrawal_requests[withdrawal_id] EXCEPT !.status = "cancelled"])
    /\ amount_rows' =
           [i \in DOMAIN amount_rows |->
               IF i \in AmountRowsOf(user)
               THEN [amount_rows[i] EXCEPT
                        !.amount = @ + withdrawal_requests[withdrawal_id].amount]
               ELSE amount_rows[i]]
    /\ response' = Response("cancel_withdrawal", "success", {}, 0, <<>>)
    /\ UNCHANGED <<userprofile, totalearnings_rows, totalwithdraw_rows, now, aside>>

\* cancel_withdrawal(request, withdrawal_id), request.user = user (POST).
cancel_withdrawal(user, withdrawal_id) ==
    /\ UNCHANGED <<userprofile, balances, now, aside>>
    /\ IF ~get_object_or_404(user, withdrawal_id)
       THEN \* Http404
            /\ response' = Response("cancel_withdrawal", "not_found", {}, 0, <<>>)
            /\ UNCHANGED withdrawal_requests
       ELSE IF ~can_be_cancelled(withdrawal_id)
       THEN \* messages.error, redirect
            /\ response' = Response("cancel_withdrawal", "error: cannot be cancelled",
                                    {}, 0, <<>>)
            /\ UNCHANGED withdrawal_requests
       ELSE \* transaction.atomic(): the save commits, or raises and rolls back
            \/ /\ withdrawal_requests' =
                      Save(withdrawal_id,
                           [withdrawal_requests[withdrawal_id] EXCEPT
                               !.status = "cancelled"])
               /\ response' = Response("cancel_withdrawal", "success", {}, 0, <<>>)
            \/ /\ response' = Response("cancel_withdrawal", "error: an error occurred",
                                       {}, 0, <<>>)
               /\ UNCHANGED withdrawal_requests

(* ---------------- the balance tables (admin.py, models.py) ------------- *)

\* A row of a balance table.
BalanceRow(user, value) == [user |-> user, amount |-> value]

\* AmountAdmin's add form: one more Amount row for `user`.
AmountAdmin_add(user, value) ==
    /\ Len(amount_rows) < MaxRows
    /\ amount_rows' = Append(amount_rows, BalanceRow(user, value))
    /\ UNCHANGED <<withdrawal_requests, userprofile, totalearnings_rows,
                   totalwithdraw_rows, now, response, aside>>

\* TotalearningsAdmin's add form.
TotalearningsAdmin_add(user, value) ==
    /\ Len(totalearnings_rows) < MaxRows
    /\ totalearnings_rows' = Append(totalearnings_rows, BalanceRow(user, value))
    /\ UNCHANGED <<withdrawal_requests, userprofile, amount_rows,
                   totalwithdraw_rows, now, response, aside>>

\* TotalWithdrawAdmin's add form.
TotalWithdrawAdmin_add(user, value) ==
    /\ Len(totalwithdraw_rows) < MaxRows
    /\ totalwithdraw_rows' = Append(totalwithdraw_rows, BalanceRow(user, value))
    /\ UNCHANGED <<withdrawal_requests, userprofile, amount_rows,
                   totalearnings_rows, now, response, aside>>

(* --------------------- UserProfileAdmin (admin.py) --------------------- *)

\* The change form: withdrawal_enabled and withdrawal_disabled_reason as typed.
UserProfileAdmin_change(user, enabled, reason) ==
    /\ userprofile' = [userprofile EXCEPT
           ![user] = [withdrawal_enabled |-> enabled,
                      withdrawal_disabled_reason |-> reason]]
    /\ UNCHANGED <<withdrawal_requests, balances, now, response, aside>>

\* Bulk action "Enable withdrawals for selected users".
enable_withdrawals(selected) ==
    /\ selected # {}
    /\ userprofile' =
           [u \in Users |->
               IF u \in selected
               THEN [withdrawal_enabled |-> TRUE, withdrawal_disabled_reason |-> ""]
               ELSE userprofile[u]]
    /\ response' = Response("enable_withdrawals", "SUCCESS", {},
                            Cardinality(selected), <<>>)
    /\ UNCHANGED <<withdrawal_requests, balances, now, aside>>

\* Bulk action "Disable withdrawals for selected users": the reason is kept.
disable_withdrawals(selected) ==
    /\ selected # {}
    /\ userprofile' =
           [u \in Users |->
               IF u \in selected
               THEN [userprofile[u] EXCEPT !.withdrawal_enabled = FALSE]
               ELSE userprofile[u]]
    /\ response' = Response("disable_withdrawals", "WARNING", {},
                            Cardinality(selected), <<>>)
    /\ UNCHANGED <<withdrawal_requests, balances, now, aside>>

(* ------------------------- withdraw_view (views.py) -------------------- *)

\* Whether the name user_profile is bound when withdraw_view builds its
\* context: the get_or_create that bound it is commented out, and the module
\* defines no global of that name.
user_profile_is_bound == FALSE

\* Amount.objects.filter(user=user).first(): the user's row of lowest id.
FirstAmountRow(user) ==
    CHOOSE i \in AmountRowsOf(user) : \A j \in AmountRowsOf(user) : i <= j

\* user_balance of withdraw_view.
user_balance(user) ==
    IF AmountRowsOf(user) = {} THEN 0 ELSE amount_rows[FirstAmountRow(user)].amount

\* withdraw_view(request), request.user = user, for GET and POST alike: the
\* context is built from user_profile, and evaluating an unbound name raises
\* NameError before anything is rendered.  No branch creates a row.
withdraw_view(user) ==
    /\ IF user_profile_is_bound
       THEN response' = Response("withdraw_view", "rendered", {}, 0,
                                 <<~userprofile[user].withdrawal_enabled,
                                   userprofile[user].withdrawal_disabled_reason,
                                   user_balance(user)>>)
       ELSE response' = Response("withdraw_view", "NameError", {}, 0, <<>>)
    /\ UNCHANGED <<withdrawal_requests, userprofile, balances, now, aside>>

(* -------------------------- the workflow ------------------------------- *)

\* Ids a caller may name: every row the table can hold, and one past it.
NamedIds == 1..(MaxReq + 1)

AddRequest ==
    \E u \in Users, amt \in RequestAmounts, m \in WITHDRAWAL_METHOD_CHOICES,
       st \in CancellableStatuses :
        WithdrawalRequestAdmin_add(u, amt, m, st)

Cancel == \E u \in Users, wid \in NamedIds : cancel_withdrawal(u, wid)

BulkApprove == \E selected \in SUBSET RequestIds : approve_withdrawals(selected)

BulkReject == \E selected \in SUBSET RequestIds : reject_withdrawals(selected)

MarkCompleted ==
    \E w \in RequestIds, by \in ProcessorArgs, tx \in TxArgs :
        mark_as_completed(w, by, tx)

MarkRejected ==
    \E w \in RequestIds, reason \in ReasonArgs, by \in ProcessorArgs :
        mark_as_rejected(w, reason, by)

Next ==
    \/ Tick
    \/ AddRequest
    \/ Cancel
    \/ BulkApprove
    \/ BulkReject
    \/ MarkCompleted
    \/ MarkRejected

Spec == Init /\ [][Next]_vars

(* The handlers the web layer reaches: the view and the admin's bulk actions. *)

HandlerNext ==
    \/ AddRequest
    \/ Cancel
    \/ BulkApprove
    \/ BulkReject

HandlerSpec == Init /\ [][HandlerNext]_vars

(* The balance ledger next to the owner's cancel. *)

AddAmount ==
    \E u \in Users, v \in BalanceValues : AmountAdmin_add(u, v)

AddTotalearnings ==
    \E u \in Users, v \in BalanceValues : TotalearningsAdmin_add(u, v)

AddTotalWithdraw ==
    \E u \in Users, v \in BalanceValues : TotalWithdrawAdmin_add(u, v)

BalanceNext ==
    \/ AddRequest
    \/ Cancel
    \/ AddAmount
    \/ AddTotalearnings
    \/ AddTotalWithdraw

BalanceSpec == Init /\ [][BalanceNext]_vars

(* The withdrawal gate: profiles, their admin, and the withdrawal page. *)

ChangeProfile ==
    \E u \in Users, enabled \in BOOLEAN, reason \in ProfileReasons :
        UserProfileAdmin_change(u, enabled, reason)

EnableWithdrawals == \E selected \in SUBSET Users : enable_withdrawals(selected)

DisableWithdrawals == \E selected \in SUBSET Users : disable_withdrawals(selected)

WithdrawView == \E u \in Users : withdraw_view(u)

GateNext ==
    \/ AddRequest
    \/ AddAmount
    \/ ChangeProfile
    \/ EnableWithdrawals
    \/ DisableWithdrawals
    \/ WithdrawView

GateSpec == Init /\ [][GateNext]_vars

(* ------------- cancel_withdrawal, statement by statement --------------- *)

\* What the rest of the store does while a cancel is between two statements.
cancel_frame ==
    <<userprofile, balances, now, profiled, investment_plans, investments, users,
      phone_number, crypto_wallets>>

\* The first half of cancel_withdrawal: the SELECT of get_object_or_404 and
\* the can_be_cancelled test on the instance it loaded.  Nothing is locked
\* (no select_for_update, and transaction.atomic() has not begun yet).
cancel_withdrawal_read(user, withdrawal_id) ==
    /\ cancel_inflight = <<>>
    /\ IF ~get_object_or_404(user, withdrawal_id)
       THEN /\ response' = Response("cancel_withdrawal", "not_found", {}, 0, <<>>)
            /\ UNCHANGED cancel_inflight
       ELSE IF ~can_be_cancelled(withdrawal_id)
       THEN /\ response' = Response("cancel_withdrawal", "error: cannot be cancelled",
                                    {}, 0, <<>>)
            /\ UNCHANGED cancel_inflight
       ELSE /\ cancel_inflight' =
                   <<[id |-> withdrawal_id,
                      instance |-> withdrawal_requests[withdrawal_id]]>>
            /\ UNCHANGED response
    /\ UNCHANGED withdrawal_requests
    /\ UNCHANGED cancel_frame

\* The second half: inside transaction.atomic(), status = "cancelled" on the
\* loaded instance and save(), an UPDATE of every column by primary key with
\* no condition on the stored status; or the save raises and rolls back.
cancel_withdrawal_save ==
    /\ cancel_inflight # <<>>
    /\ cancel_inflight' = <<>>
    /\ LET loaded == cancel_inflight[1]
       IN  \/ /\ withdrawal_requests' =
                     Save(loaded.id, [loaded.instance EXCEPT !.status = "cancelled"])
              /\ response' = Response("cancel_withdrawal", "success", {}, 0, <<>>)
           \/ /\ response' = Response("cancel_withdrawal", "error: an error occurred",
                                      {}, 0, <<>>)
              /\ UNCHANGED withdrawal_requests
    /\ UNCHANGED cancel_frame

(* The owner's cancel interleaved with the admin's bulk actions. *)

CancelRead == \E u \in Users, wid \in NamedIds : cancel_withdrawal_read(u, wid)

CancelSave == cancel_withdrawal_save

RaceNext ==
    \/ AddRequest
    \/ CancelRead
    \/ CancelSave
    \/ BulkApprove
    \/ BulkReject

RaceSpec == Init /\ [][RaceNext]_vars

(* -------- disable_user_withdrawals, profiles without a user ------------ *)

\* UserProfileAdmin's change form saved with `user` emptied (the field is in
\* the form and is null=True): the row stays, detached, and the user is left
\* with no userprofile.
UserProfileAdmin_detach(user) ==
    /\ user \in profiled
    /\ profiled' = profiled \ {user}
    /\ userprofile' = [userprofile EXCEPT ![user] = NewUserProfile]
    /\ phone_number' = [phone_number EXCEPT ![user] = NoText]
    /\ UNCHANGED <<withdrawal_requests, balances, now, response, cancel_inflight,
                   investment_plans, investments, users, crypto_wallets>>

\* f"Disabled via withdrawal request #{withdrawal.id}"
UnnumberedReason(w) == "Disabled via withdrawal request"

DisabledReason(w) == "Disabled via withdrawal request #" \o ToString(w)

\* The row the changelist hands to the action first: Meta.ordering is
\* -created_at, made total by -pk, so the newest (highest id) comes first.
FirstInQueryset(rows) == CHOOSE w \in rows : \A v \in rows : v <= w

\* The loop of disable_user_withdrawals over the rows still to visit: each
\* row's owner's profile is set and saved and users_updated grows by one; a
\* row whose owner has no userprofile raises, and the bare except passes.
RECURSIVE DisableLoopAborting(_, _, _)
DisableLoopAborting(profiles, users_updated, remaining) ==
    IF remaining = {}
    THEN [profiles |-> profiles, users_updated |-> users_updated]
    ELSE LET w == FirstInQueryset(remaining)
             owner == withdrawal_requests[w].user
         IN  IF owner \in profiled
             THEN DisableLoopAborting(
                      [profiles EXCEPT ![owner] =
                          [withdrawal_enabled |-> FALSE,
                           withdrawal_disabled_reason |-> DisabledReason(w)]],
                      users_updated + 1, remaining \ {w})
             ELSE [profiles |-> profiles, users_updated |-> users_updated]

RECURSIVE DisableLoop(_, _, _)
DisableLoop(profiles, users_updated, remaining) ==
    IF remaining = {}
    THEN [profiles |-> profiles, users_updated |-> users_updated]
    ELSE LET w == FirstInQueryset(remaining)
             owner == withdrawal_requests[w].user
         IN  IF owner \in profiled
             THEN DisableLoop(
                      [profiles EXCEPT ![owner] =
                          [withdrawal_enabled |-> FALSE,
                           withdrawal_disabled_reason |-> DisabledReason(w)]],
                      users_updated + 1, remaining \ {w})
             ELSE DisableLoop(profiles, users_updated, remaining \ {w})

\* Bulk action "Disable withdrawals for selected users" of WithdrawalRequestAdmin.
disable_user_withdrawals(selected) ==
    LET done == DisableLoop(userprofile, 0, selected)
    IN  /\ selected # {}
        /\ selected \subseteq RequestIds
        /\ userprofile' = done.profiles
        /\ response' = Response("disable_user_withdrawals", "WARNING", selected,
                                done.users_updated, <<>>)
        /\ UNCHANGED <<withdrawal_requests, balances, now, aside>>

(* The admin's bulk actions over requests whose owners may have no profile. *)

\* The requests the bulk actions are run over are added as pending.
AddPendingRequest ==
    \E u \in Users, amt \in RequestAmounts, m \in WITHDRAWAL_METHOD_CHOICES :
        WithdrawalRequestAdmin_add(u, amt, m, "pending")

DetachProfile == \E u \in Users : UserProfileAdmin_detach(u)

DisableUserWithdrawals ==
    \E selected \in SUBSET RequestIds : disable_user_withdrawals(selected)

BulkNext ==
    \/ AddPendingRequest
    \/ DetachProfile
    \/ DisableUserWithdrawals
    \/ BulkApprove
    \/ BulkReject

BulkSpec == Init /\ [][BulkNext]_vars

(* Every operation on an existing request, by the staff user. *)

SubmitRequest ==
    \E amt \in RequestAmounts, m \in WITHDRAWAL_METHOD_CHOICES :
        WithdrawalRequestAdmin_add("u1", amt, m, "pending")

DisableOwner == \E w \in RequestIds : disable_user_withdrawals({w})

CompleteByStaff ==
    \E w \in RequestIds : mark_as_completed(w, "a1", "tx1")

RejectByStaff ==
    \E w \in RequestIds : mark_as_rejected(w, "fraud", "a1")

OperationsNext ==
    \/ SubmitRequest
    \/ Cancel
    \/ BulkApprove
    \/ BulkReject
    \/ DisableOwner
    \/ CompleteByStaff
    \/ RejectByStaff

OperationsSpec == Init /\ [][OperationsNext]_vars

(* ------------ InvestmentPlan and Investment (models.py) ---------------- *)

\* Bounds of the investment tables and of the investment clock.
MaxPlans == 1

MaxInv == 2

MaxDay == 16

\* The clock counts ticks; a calendar day has this many of them.
TicksPerDay == 2

\* NULL of a DecimalField, of a PositiveIntegerField and of a ForeignKey id.
NoAmount == -1

NoRate == -1

NoDuration == -1

NoPlan == 0

NoWallet == "NULL"

INVESTMENT_STATUS_CHOICES == {"PENDING", "ACTIVE", "COMPLETED", "CANCELLED"}

\* CryptoWallet.wallet_address of a plan's wallet, as stored now.
EnteredAddress(wallet) == NewCryptoWallets[wallet]

wallet_address(wallet) == crypto_wallets[wallet]

\* What the withdrawal side and the wallet table keep while the investment
\* side acts.
withdrawal_side ==
    <<withdrawal_requests, userprofile, balances, cancel_inflight, profiled, users,
      phone_number, crypto_wallets>>

PlanIds == DOMAIN investment_plans

InvestmentIds == DOMAIN investments

\* An InvestmentPlan row.  Money is in whole dollars, the daily rate in
\* hundredths of a percent (the field has two decimal places).
NewInvestmentPlan(title, minimum, maximum, rate, duration, deposit_return, wallet, active) ==
    [title                     |-> title,
     minimum_deposit           |-> minimum,
     maximum_deposit           |-> maximum,
     daily_earnings_percentage |-> rate,
     investment_duration_days  |-> duration,
     deposit_return            |-> deposit_return,
     crypto_wallet             |-> wallet,
     is_active                 |-> active]

\* What the field validators of InvestmentPlan let a form save: a minimum of
\* at least 1, a rate from 0.01 to 50.00, a duration that is not negative,
\* each of them or NULL; maximum_deposit has no validator.
PlanFormValid(plan) ==
    /\ plan.minimum_deposit = NoAmount \/ plan.minimum_deposit >= 1
    /\ plan.maximum_deposit = NoAmount \/ plan.maximum_deposit >= 0
    /\ plan.daily_earnings_percentage = NoRate
          \/ (plan.daily_earnings_percentage >= 1 /\ plan.daily_earnings_percentage <= 5000)
    /\ plan.investment_duration_days = NoDuration \/ plan.investment_duration_days >= 0
    /\ plan.crypto_wallet \in CryptoWallets \cup {NoWallet}

\* An Investment row as Investment.objects.create builds it: status and
\* total_earnings at their defaults, date_invested by auto_now_add.
NewInvestment(user, plan_id, amount, wallet_used, plan_text, wallet_text) ==
    [user                |-> user,
     investment_plan     |-> plan_id,
     amount              |-> amount,
     wallet_address_used |-> wallet_used,
     status              |-> "PENDING",
     date_invested       |-> now,
     date_completed      |-> NoTime,
     total_earnings      |-> 0,
     plan                |-> plan_text,
     wallet_address      |-> wallet_text]

\* Characters as Python and the database see them: what split() takes for
\* white space, and the letters by case.
WhiteSpace == {" ", "\t", "\n"}

UpperCase == "ABCDEFGHIJKLMNOPQRSTUVWXYZ"

LowerCase == "abcdefghijklmnopqrstuvwxyz"

\* The lower-case form of one character.
Lower(c) ==
    IF \E i \in 1..Len(UpperCase) : SubSeq(UpperCase, i, i) = c
    THEN LET i == CHOOSE i \in 1..Len(UpperCase) : SubSeq(UpperCase, i, i) = c
         IN  SubSeq(LowerCase, i, i)
    ELSE c

RECURSIVE LowerText(_)
LowerText(text) ==
    IF text = "" THEN "" ELSE Lower(SubSeq(text, 1, 1)) \o LowerText(Tail(text))

\* text.split()[0]: the first run of characters that are not white space;
\* "" stands for the IndexError of a text with no such run.
RECURSIVE SkipWhiteSpace(_)
SkipWhiteSpace(text) ==
    IF text = "" THEN ""
    ELSE IF SubSeq(text, 1, 1) \in WhiteSpace THEN SkipWhiteSpace(Tail(text))
    ELSE text

RECURSIVE UpToWhiteSpace(_)
UpToWhiteSpace(text) ==
    IF text = "" THEN ""
    ELSE IF SubSeq(text, 1, 1) \in WhiteSpace THEN ""
    ELSE SubSeq(text, 1, 1) \o UpToWhiteSpace(Tail(text))

FirstWord(text) == UpToWhiteSpace(SkipWhiteSpace(text))

\* title__icontains=word: the word occurs in the title, whatever the case;
\* a NULL title matches nothing.
IContains(title, word) ==
    /\ title # NoText
    /\ LET lowered == LowerText(title)
           sought == LowerText(word)
       IN  \E i \in 1..(Len(lowered) - Len(sought) + 1) :
               SubSeq(lowered, i, i + Len(sought) - 1) = sought

\* The order of two titles under Meta.ordering (sort_order is left at its
\* default in every plan of the model, so the title decides).
Collation == " 0123456789ABCDEFGHIJKLMNOPQRSTUVWXYZabcdefghijklmnopqrstuvwxyz"

Rank(c) ==
    IF \E i \in 1..Len(Collation) : SubSeq(Collation, i, i) = c
    THEN CHOOSE i \in 1..Len(Collation) : SubSeq(Collation, i, i) = c
    ELSE 0

RECURSIVE TitleBefore(_, _)
TitleBefore(a, b) ==
    IF b = "" THEN FALSE
    ELSE IF a = "" THEN TRUE
    ELSE IF SubSeq(a, 1, 1) = SubSeq(b, 1, 1) THEN TitleBefore(Tail(a), Tail(b))
    ELSE Rank(SubSeq(a, 1, 1)) < Rank(SubSeq(b, 1, 1))

\* InvestmentPlan.objects.filter(title__icontains=word).first(): the matching
\* plan that comes first by title (by id among equal titles); NoPlan when no
\* plan matches.
PlansMatching(word) == {p \in PlanIds : IContains(investment_plans[p].title, word)}

FirstPlanTitled(word) ==
    IF PlansMatching(word) = {} THEN NoPlan
    ELSE CHOOSE p \in PlansMatching(word) :
             \A q \in PlansMatching(word) \ {p} :
                 \/ TitleBefore(investment_plans[p].title, investment_plans[q].title)
                 \/ (investment_plans[p].title = investment_plans[q].title /\ p < q)

\* The row Investment.save() writes for `row`: the two legacy fall-backs,
\* then the insert.  A text with no word raises IndexError inside the try,
\* and the bare except passes.
SaveOverwritingWallet(row) ==
    IF Truthy(row.wallet_address)
    THEN [row EXCEPT !.wallet_address_used = row.wallet_address]
    ELSE row

Investment_save(row) ==
    LET resolved ==
            IF Truthy(row.plan) /\ row.investment_plan = NoPlan
                  /\ FirstWord(row.plan) # ""
                  /\ FirstPlanTitled(FirstWord(row.plan)) # NoPlan
            THEN [row EXCEPT !.investment_plan = FirstPlanTitled(FirstWord(row.plan))]
            ELSE row
    IN  IF Truthy(resolved.wallet_address) /\ ~Truthy(resolved.wallet_address_used)
        THEN [resolved EXCEPT !.wallet_address_used = resolved.wallet_address]
        ELSE resolved

(* ---------------------- derived metrics (models.py) -------------------- *)

\* What reading a property gives: None, a number num/den, or an exception.
ReturnsNone == [kind |-> "None", num |-> 0, den |-> 1, error |-> ""]

Returns(num, den) == [kind |-> "number", num |-> num, den |-> den, error |-> ""]

Raises(error) == [kind |-> "raises", num |-> 0, den |-> 1, error |-> error]

\* The calendar date of a timestamp: datetime.date().
Date(t) == t \div TicksPerDay

\* (timezone.now().date() - self.date_invested.date()).days
WholeDaysElapsed(inv) == (now - inv.date_invested) \div TicksPerDay

days_elapsed(inv) == Date(now) - Date(inv.date_invested)

\* `not self.investment_plan`
HasPlan(inv) == inv.investment_plan # NoPlan

PlanOf(inv) == investment_plans[inv.investment_plan]

\* Investment.daily_earnings
UnguardedDailyEarnings(inv) ==
    IF inv.amount = NoAmount THEN ReturnsNone
    ELSE IF ~HasPlan(inv) THEN Raises("AttributeError")
    ELSE IF PlanOf(inv).daily_earnings_percentage = NoRate THEN Raises("TypeError")
    ELSE Returns(PlanOf(inv).daily_earnings_percentage * inv.amount, 10000)

daily_earnings(inv) ==
    IF ~HasPlan(inv) \/ inv.amount = NoAmount THEN ReturnsNone
    ELSE IF PlanOf(inv).daily_earnings_percentage = NoRate THEN Raises("TypeError")
    ELSE Returns(PlanOf(inv).daily_earnings_percentage * inv.amount, 10000)

\* Investment.expected_total_earnings
expected_total_earnings(inv) ==
    LET daily == daily_earnings(inv)
    IN  IF daily.kind = "raises" THEN daily
        ELSE IF daily.kind = "None" \/ ~HasPlan(inv) THEN ReturnsNone
        ELSE IF PlanOf(inv).investment_duration_days = NoDuration THEN Raises("TypeError")
        ELSE Returns(daily.num * PlanOf(inv).investment_duration_days, daily.den)

\* Investment.expected_total_return
ReturnWithoutPrincipal(inv) == expected_total_earnings(inv)

expected_total_return(inv) ==
    LET earnings == expected_total_earnings(inv)
    IN  IF earnings.kind = "raises" THEN earnings
        ELSE IF earnings.kind = "None" THEN ReturnsNone
        ELSE IF PlanOf(inv).deposit_return
        THEN Returns(earnings.num + inv.amount * earnings.den, earnings.den)
        ELSE earnings

\* Investment.days_remaining
days_remaining(inv) ==
    IF ~HasPlan(inv) THEN ReturnsNone
    ELSE IF inv.status = "COMPLETED" THEN Returns(0, 1)
    ELSE IF PlanOf(inv).investment_duration_days = NoDuration THEN Raises("TypeError")
    ELSE LET left == PlanOf(inv).investment_duration_days - days_elapsed(inv)
         IN  Returns(IF left > 0 THEN left ELSE 0, 1)

\* Investment.progress_percentage: min(100, x) is 100 unless x < 100.
UnclampedProgress(inv) ==
    IF ~HasPlan(inv) THEN ReturnsNone
    ELSE IF inv.status = "COMPLETED" THEN Returns(100, 1)
    ELSE IF PlanOf(inv).investment_duration_days = NoDuration THEN Raises("TypeError")
    ELSE IF PlanOf(inv).investment_duration_days = 0 THEN Raises("ZeroDivisionError")
    ELSE Returns(100 * days_elapsed(inv), PlanOf(inv).investment_duration_days)

progress_percentage(inv) ==
    IF ~HasPlan(inv) THEN ReturnsNone
    ELSE IF inv.status = "COMPLETED" THEN Returns(100, 1)
    ELSE IF PlanOf(inv).investment_duration_days = NoDuration THEN Raises("TypeError")
    ELSE IF PlanOf(inv).investment_duration_days = 0 THEN Raises("ZeroDivisionError")
    ELSE LET total_days == PlanOf(inv).investment_duration_days
         IN  IF 100 * days_elapsed(inv) < 100 * total_days
             THEN Returns(100 * days_elapsed(inv), total_days)
             ELSE Returns(100, 1)

(* ------------- InvestmentPlanAdmin, invest_view, InvestmentAdmin ------- *)

\* InvestmentPlanAdmin's add form: a new plan that passes the field validators.
InvestmentPlanAdmin_add(plan) ==
    /\ Len(investment_plans) < MaxPlans
    /\ PlanFormValid(plan)
    /\ investment_plans' = Append(investment_plans, plan)
    /\ UNCHANGED <<withdrawal_side, now, response, investments>>

\* What a user posts as `amount`: text float() parses (to `value`) or not.
PostedNumber(value) == [numeric |-> TRUE, value |-> value]

PostedText == [numeric |-> FALSE, value |-> 0]

\* InvestmentPlan.objects.get(id=plan_id, is_active=True) finds a row.
ActivePlanExists(plan_id) ==
    plan_id \in PlanIds /\ investment_plans[plan_id].is_active

\* Python truthiness of a Decimal field: None and 0 are falsy.
DecimalTruthy(amount) == amount # NoAmount /\ amount # 0

\* The answer of invest_view.
InvestAnswer(outcome) == Response("invest_view", outcome, {}, 0, <<>>)

\* invest_view for `user`: a GET renders the form; a POST looks the active
\* plan up, parses the amount, checks it against the plan's minimum and
\* maximum, creates the Investment and redirects; each exception is turned
\* into an error message and the form is rendered again.
invest_view(user, method, plan_id, posted) ==
    /\ UNCHANGED <<withdrawal_side, now, investment_plans>>
    /\ IF method # "POST"
       THEN /\ response' = InvestAnswer("rendered")
            /\ UNCHANGED investments
       ELSE IF ~ActivePlanExists(plan_id)
       THEN /\ response' = InvestAnswer("error: Invalid investment plan selected.")
            /\ UNCHANGED investments
       ELSE IF ~posted.numeric
       THEN /\ response' = InvestAnswer("error: Invalid investment amount.")
            /\ UNCHANGED investments
       ELSE LET investment_plan == investment_plans[plan_id]
                amount == posted.value
            IN  IF investment_plan.minimum_deposit = NoAmount
                THEN /\ response' = InvestAnswer("error: An error occurred while processing your investment.")
                     /\ UNCHANGED investments
                ELSE IF amount < investment_plan.minimum_deposit
                THEN /\ response' = InvestAnswer("error: Minimum investment")
                     /\ UNCHANGED investments
                ELSE IF DecimalTruthy(investment_plan.maximum_deposit)
                           /\ amount > investment_plan.maximum_deposit
                THEN /\ response' = InvestAnswer("error: Maximum investment")
                     /\ UNCHANGED investments
                ELSE IF investment_plan.crypto_wallet = NoWallet
                THEN /\ response' = InvestAnswer("error: An error occurred while processing your investment.")
                     /\ UNCHANGED investments
                ELSE /\ Len(investments) < MaxInv
                     /\ investments' = Append(investments,
                            Investment_save(NewInvestment(user, plan_id, amount,
                                wallet_address(investment_plan.crypto_wallet),
                                investment_plan.title,
                                wallet_address(investment_plan.crypto_wallet))))
                     /\ response' = InvestAnswer("success")

\* queryset.update(status=st) of InvestmentAdmin over `rows`.
UpdateEveryInvestment(rows, st) ==
    [i \in InvestmentIds |-> [investments[i] EXCEPT !.status = st]]

UpdateInvestmentStatus(rows, st) ==
    [i \in InvestmentIds |->
        IF i \in rows THEN [investments[i] EXCEPT !.status = st] ELSE investments[i]]

\* Bulk action "Mark selected investments as active".
InvestmentAdmin_mark_as_active(selected) ==
    /\ selected # {}
    /\ selected \subseteq InvestmentIds
    /\ investments' = UpdateInvestmentStatus(selected, "ACTIVE")
    /\ response' = Response("mark_as_active", "SUCCESS", selected,
                            Cardinality(selected), <<>>)
    /\ UNCHANGED <<withdrawal_side, now, investment_plans>>

\* Bulk action "Mark selected investments as completed": status and
\* date_completed in one UPDATE.
InvestmentAdmin_mark_as_completed(selected) ==
    /\ selected # {}
    /\ selected \subseteq InvestmentIds
    /\ investments' =
           [i \in InvestmentIds |->
               IF i \in selected
               THEN [investments[i] EXCEPT !.status = "COMPLETED", !.date_completed = now]
               ELSE investments[i]]
    /\ response' = Response("mark_as_completed", "SUCCESS", selected,
                            Cardinality(selected), <<>>)
    /\ UNCHANGED <<withdrawal_side, now, investment_plans>>

\* Bulk action "Mark selected investments as cancelled".
InvestmentAdmin_mark_as_cancelled(selected) ==
    /\ selected # {}
    /\ selected \subseteq InvestmentIds
    /\ investments' = UpdateInvestmentStatus(selected, "CANCELLED")
    /\ response' = Response("mark_as_cancelled", "SUCCESS", selected,
                            Cardinality(selected), <<>>)
    /\ UNCHANGED <<withdrawal_side, now, investment_plans>>

(* Investing: the plans an admin adds, what users submit against them. *)

\* The plans the admin adds: minimum unset or 2, maximum unset, 0 or 3, with
\* or without a wallet, active or not.
PlanForms ==
    {NewInvestmentPlan("Gold", minimum, maximum, 180, 10, TRUE, wallet, active) :
        minimum \in {NoAmount, 2}, maximum \in {NoAmount, 0, 3},
        wallet \in {NoWallet} \cup CryptoWallets, active \in BOOLEAN}

\* The amounts users post: below, at and above the bounds, or not a number.
PostedAmounts == {PostedText} \cup {PostedNumber(v) : v \in {1, 2, 3, 5}}

AddPlan == \E plan \in PlanForms : InvestmentPlanAdmin_add(plan)

InvestView ==
    \E u \in Users, method \in {"GET", "POST"}, plan_id \in 1..(MaxPlans + 1),
       posted \in PostedAmounts :
        invest_view(u, method, plan_id, posted)

InvestmentsMarkActive ==
    \E selected \in SUBSET InvestmentIds : InvestmentAdmin_mark_as_active(selected)

InvestmentsMarkCompleted ==
    \E selected \in SUBSET InvestmentIds : InvestmentAdmin_mark_as_completed(selected)

InvestmentsMarkCancelled ==
    \E selected \in SUBSET InvestmentIds : InvestmentAdmin_mark_as_cancelled(selected)

InvestNext ==
    \/ AddPlan
    \/ InvestView
    \/ InvestmentsMarkActive
    \/ InvestmentsMarkCompleted
    \/ InvestmentsMarkCancelled

InvestSpec == Init /\ [][InvestNext]_vars

(* The derived metrics of one investment, read as the clock advances. *)

\* The plans the metrics are read against: rate and duration set or NULL,
\* durations 0, 1, 10 and 30, with and without return of the deposit.
MetricPlans ==
    {NewInvestmentPlan("Gold", 100, NoAmount, rate, duration, deposit_return, "BTC", TRUE) :
        rate \in {NoRate, 180}, duration \in {NoDuration, 0, 1, 10, 30},
        deposit_return \in BOOLEAN}

\* The investments the metrics are read of: with or without a plan and an
\* amount, in every status, invested at any time of the first day.
MetricInvestments ==
    {[user                |-> "u1",
      investment_plan     |-> plan_id,
      amount              |-> amount,
      wallet_address_used |-> wallet_address("BTC"),
      status              |-> status,
      date_invested       |-> invested,
      date_completed      |-> NoTime,
      total_earnings      |-> 0,
      plan                |-> NoText,
      wallet_address      |-> NoText] :
        plan_id \in {NoPlan, 1}, amount \in {NoAmount, 500},
        status \in INVESTMENT_STATUS_CHOICES, invested \in 0..(TicksPerDay - 1)}

MetricsInit ==
    /\ withdrawal_requests = <<>>
    /\ userprofile = [u \in Users |-> NewUserProfile]
    /\ amount_rows = <<>>
    /\ totalearnings_rows = <<>>
    /\ totalwithdraw_rows = <<>>
    /\ response = Response("none", "none", {}, 0, <<>>)
    /\ cancel_inflight = <<>>
    /\ profiled = Users
    /\ users = Users
    /\ phone_number = [u \in Users |-> NoText]
    /\ crypto_wallets = NewCryptoWallets
    /\ \E plan \in MetricPlans : investment_plans = <<plan>>
    /\ \E inv \in MetricInvestments :
          /\ investments = <<inv>>
          /\ now = inv.date_invested

\* timezone.now() moves on by one tick.
AdvanceClock ==
    /\ now < MaxDay * TicksPerDay
    /\ now' = now + 1
    /\ UNCHANGED <<withdrawal_side, response, investment_plans, investments>>

\* The five derived properties of investment i are read, in the order
\* daily_earnings, expected_total_earnings, expected_total_return,
\* days_remaining, progress_percentage.
ReadMetrics(i) ==
    /\ i \in InvestmentIds
    /\ response' = Response("investment_metrics", "read", {i}, 0,
           <<daily_earnings(investments[i]),
             expected_total_earnings(investments[i]),
             expected_total_return(investments[i]),
             days_remaining(investments[i]),
             progress_percentage(investments[i])>>)
    /\ UNCHANGED <<withdrawal_side, now, investment_plans, investments>>

Read == \E i \in InvestmentIds : ReadMetrics(i)

MetricsNext ==
    \/ AdvanceClock
    \/ Read

MetricsSpec == MetricsInit /\ [][MetricsNext]_vars

(* --------------- InvestmentPlan derived metrics (models.py) ------------ *)

\* f"{n:,.0f}" of a whole amount below a million: a comma before the last
\* three digits.
Thousands(n) ==
    IF n < 1000 THEN ToString(n)
    ELSE ToString(n \div 1000) \o ","
            \o (IF n % 1000 < 10 THEN "00" ELSE IF n % 1000 < 100 THEN "0" ELSE "")
            \o ToString(n % 1000)

\* InvestmentPlan.investment_range_display
investment_range_display(plan) ==
    IF plan.minimum_deposit = NoAmount THEN "N/A"
    ELSE IF plan.maximum_deposit # NoAmount
    THEN "$" \o Thousands(plan.minimum_deposit) \o " - $" \o Thousands(plan.maximum_deposit)
    ELSE "$" \o Thousands(plan.minimum_deposit) \o "+"

\* InvestmentPlan.total_return_percentage, in percent.
total_return_percentage(plan) ==
    IF plan.daily_earnings_percentage = NoRate \/ plan.investment_duration_days = NoDuration
    THEN ReturnsNone
    ELSE Returns(plan.daily_earnings_percentage * plan.investment_duration_days, 100)

\* InvestmentPlan.estimated_total_return, in dollars.
EstimatedEarningsOnly(plan) ==
    IF plan.daily_earnings_percentage = NoRate
          \/ plan.minimum_deposit = NoAmount
          \/ plan.investment_duration_days = NoDuration
    THEN ReturnsNone
    ELSE Returns(plan.daily_earnings_percentage * plan.minimum_deposit
                    * plan.investment_duration_days, 10000)

estimated_total_return(plan) ==
    IF plan.daily_earnings_percentage = NoRate
          \/ plan.minimum_deposit = NoAmount
          \/ plan.investment_duration_days = NoDuration
    THEN ReturnsNone
    ELSE LET total_earnings == plan.daily_earnings_percentage * plan.minimum_deposit
                                  * plan.investment_duration_days
         IN  IF plan.deposit_return
             THEN Returns(total_earnings + plan.minimum_deposit * 10000, 10000)
             ELSE Returns(total_earnings, 10000)

(* The catalog: the plans an admin adds and the metrics read of them. *)

\* The plans of the catalog: minimum, rate and duration set or NULL, with and
\* without a maximum and the return of the deposit.
CatalogForms ==
    {NewInvestmentPlan("Gold", minimum, maximum, rate, duration, deposit_return, "BTC", TRUE) :
        minimum \in {NoAmount, 100, 1500}, maximum \in {NoAmount, 25000},
        rate \in {NoRate, 180}, duration \in {NoDuration, 0, 30},
        deposit_return \in BOOLEAN}

AddCatalogPlan == \E plan \in CatalogForms : InvestmentPlanAdmin_add(plan)

\* The three derived properties of plan p are read, in the order
\* investment_range_display, total_return_percentage, estimated_total_return.
ReadPlanMetrics(p) ==
    /\ p \in PlanIds
    /\ response' = Response("plan_metrics", "read", {p}, 0,
           <<investment_range_display(investment_plans[p]),
             total_return_percentage(investment_plans[p]),
             estimated_total_return(investment_plans[p])>>)
    /\ UNCHANGED <<withdrawal_side, now, investment_plans, investments>>

ReadPlan == \E p \in PlanIds : ReadPlanMetrics(p)

CatalogNext ==
    \/ AddCatalogPlan
    \/ ReadPlan

CatalogSpec == Init /\ [][CatalogNext]_vars

(* ------------- accounts: signals, signup_view, profile_view ------------ *)

\* Phone numbers a form is sent: two that match a pattern of
\* clean_phone_number, one that matches none, and the empty field.
ValidPhones == {"08012345678", "+18012345678"}

PhoneArgs == ValidPhones \cup {"12345", ""}

\* The UserProfile table: which users have a row (user is a OneToOneField,
\* so at most one each) and the columns of each row.
Profiles ==
    [profiled |-> profiled, userprofile |-> userprofile, phone_number |-> phone_number]

\* UserProfile.objects.create(user=instance): a row of field defaults.
CreateProfile(table, instance) ==
    [profiled     |-> table.profiled \cup {instance},
     userprofile  |-> [table.userprofile EXCEPT ![instance] = NewUserProfile],
     phone_number |-> [table.phone_number EXCEPT ![instance] = NoText]]

\* Receiver create_user_profile of post_save(User).
NoProfileCreated(table, instance, created) == table

create_user_profile(table, instance, created) ==
    IF created THEN CreateProfile(table, instance) ELSE table

\* Receiver save_user_profile of post_save(User): the instance's profile, if
\* it has one, is saved as it was loaded.
save_user_profile(table, instance) == table

\* User.save(): the row is written and post_save runs its two receivers.
User_save(table, instance, created) ==
    save_user_profile(create_user_profile(table, instance, created), instance)

\* The profile of `user`, created first when there is none: the try / except
\* DoesNotExist of signup_view, get_or_create of UserUpdateForm.save.
EnsureProfile(table, user) ==
    IF user \in table.profiled THEN table ELSE CreateProfile(table, user)

\* profile.phone_number = phone; profile.save()
SetPhone(table, user, phone) ==
    [table EXCEPT !.phone_number = [table.phone_number EXCEPT ![user] = phone]]

\* The UserProfile table becomes `table`.
StoreProfiles(table) ==
    /\ profiled' = table.profiled
    /\ userprofile' = table.userprofile
    /\ phone_number' = table.phone_number

\* What the account handlers leave alone.
account_frame ==
    <<withdrawal_requests, balances, now, cancel_inflight, investment_plans, investments,
      crypto_wallets>>

\* A User created outside signup_view (createsuperuser, the admin's add form).
User_create(username) ==
    /\ username \notin users
    /\ users' = users \cup {username}
    /\ StoreProfiles(User_save(Profiles, username, TRUE))
    /\ UNCHANGED <<account_frame, response>>

\* signup_view: an authenticated caller is redirected; a GET renders the
\* form; a POST with a taken username or a phone number matching no pattern
\* renders the errors; a valid POST saves the user, takes (or creates) the
\* profile and stores the phone number in it.
signup_view(authenticated, method, username, phone) ==
    /\ UNCHANGED account_frame
    /\ IF authenticated
       THEN /\ response' = Response("signup_view", "redirect: dashboard", {}, 0, <<>>)
            /\ UNCHANGED <<users, profiled, userprofile, phone_number>>
       ELSE IF method # "POST"
       THEN /\ response' = Response("signup_view", "rendered", {}, 0, <<>>)
            /\ UNCHANGED <<users, profiled, userprofile, phone_number>>
       ELSE IF username \in users \/ phone \notin ValidPhones
       THEN /\ response' = Response("signup_view", "error: Please correct the errors below.",
                                    {}, 0, <<>>)
            /\ UNCHANGED <<users, profiled, userprofile, phone_number>>
       ELSE /\ users' = users \cup {username}
            /\ StoreProfiles(
                   SetPhone(EnsureProfile(User_save(Profiles, username, TRUE), username),
                            username, phone))
            /\ response' = Response("signup_view", "redirect: login", {}, 0, <<>>)

\* <table>.objects.filter(user=user).first() of a balance table, and the
\* value the context shows: the row's amount, or 0 when there is no row.
RowsOf(rows, user) == {i \in DOMAIN rows : rows[i].user = user}

BalanceShown(rows, user) ==
    IF RowsOf(rows, user) = {} THEN 0
    ELSE rows[CHOOSE i \in RowsOf(rows, user) : \A j \in RowsOf(rows, user) : i <= j].amount

\* The financial data dashboard, profile_view and change_password put in
\* their context: amount, total_earnings, total_withdraw.
FinancialData(user) ==
    <<BalanceShown(amount_rows, user),
      BalanceShown(totalearnings_rows, user),
      BalanceShown(totalwithdraw_rows, user)>>

\* profile_view of a logged-in user: a valid POST saves the user and the
\* phone number (UserUpdateForm.save) and redirects; a GET or an invalid POST
\* renders the page with the financial data.
profile_view(user, method, phone) ==
    /\ user \in users
    /\ UNCHANGED <<account_frame, users>>
    /\ IF method = "POST" /\ phone \in ValidPhones \cup {""}
       THEN /\ StoreProfiles(
                   SetPhone(EnsureProfile(User_save(Profiles, user, FALSE), user),
                            user, phone))
            /\ response' = Response("profile_view", "redirect: profile", {}, 0, <<>>)
       ELSE /\ response' = Response("profile_view", "rendered", {}, 0, FinancialData(user))
            /\ UNCHANGED <<profiled, userprofile, phone_number>>

(* Accounts: users appear, sign up and edit their profile. *)

AccountInit ==
    /\ withdrawal_requests = <<>>
    /\ userprofile = [u \in Users |-> NewUserProfile]
    /\ amount_rows = <<>>
    /\ totalearnings_rows = <<>>
    /\ totalwithdraw_rows = <<>>
    /\ now = 0
    /\ response = Response("none", "none", {}, 0, <<>>)
    /\ cancel_inflight = <<>>
    /\ profiled = {}
    /\ investment_plans = <<>>
    /\ investments = <<>>
    /\ users = {}
    /\ phone_number = [u \in Users |-> NoText]
    /\ crypto_wallets = NewCryptoWallets

CreateUser == \E u \in Users : User_create(u)

Signup ==
    \E authenticated \in BOOLEAN, method \in {"GET", "POST"}, u \in Users,
       phone \in PhoneArgs :
        signup_view(authenticated, method, u, phone)

ProfileView ==
    \E u \in Users, method \in {"GET", "POST"}, phone \in PhoneArgs :
        profile_view(u, method, phone)

AccountNext ==
    \/ CreateUser
    \/ Signup
    \/ ProfileView

AccountSpec == AccountInit /\ [][AccountNext]_vars

(* --------------- the views that show the balances (views.py) ----------- *)

\* dashboard of a logged-in user: the three balances are looked up with
\* filter(user=user).first() and shown, 0 for a table with no row of the user.
dashboard(user) ==
    /\ user \in users
    /\ response' = Response("dashboard", "rendered", {}, 0, FinancialData(user))
    /\ UNCHANGED <<withdrawal_requests, userprofile, balances, now, aside>>

\* change_password of a logged-in user: a valid POST saves the user (the
\* password is a column the model does not keep; post_save finds the profile
\* and saves it as it is) and redirects; a GET or an invalid POST renders the
\* page with the financial data.
change_password(user, method, form_valid) ==
    /\ user \in users
    /\ UNCHANGED <<account_frame, users>>
    /\ IF method = "POST" /\ form_valid
       THEN /\ StoreProfiles(User_save(Profiles, user, FALSE))
            /\ response' = Response("change_password", "redirect: dashboard", {}, 0, <<>>)
       ELSE /\ response' = Response("change_password", "rendered", {}, 0,
                                    FinancialData(user))
            /\ UNCHANGED <<profiled, userprofile, phone_number>>

(* The ledger: the balance rows an admin adds, and the views that read them. *)

Dashboard == \E u \in Users : dashboard(u)

ChangePassword ==
    \E u \in Users, method \in {"GET", "POST"}, form_valid \in BOOLEAN :
        change_password(u, method, form_valid)

ShowProfile == \E u \in Users : profile_view(u, "GET", "")

LedgerNext ==
    \/ AddAmount
    \/ AddTotalearnings
    \/ AddTotalWithdraw
    \/ Dashboard
    \/ ShowProfile
    \/ ChangePassword
    \/ WithdrawView

LedgerSpec == Init /\ [][LedgerNext]_vars

(* ---------------- legacy investments (admin.py, models.py) ------------- *)

\* InvestmentAdmin's add form: the submitted row, date_invested set by
\* auto_now_add, goes through Investment.save(); the answer keeps the row as
\* it was submitted.
InvestmentAdmin_add(row) ==
    /\ Len(investments) < MaxInv
    /\ row.investment_plan \in PlanIds \cup {NoPlan}
    /\ investments' = Append(investments,
                             Investment_save([row EXCEPT !.date_invested = now]))
    /\ response' = Response("InvestmentAdmin_add", "saved", {}, 0, <<row>>)
    /\ UNCHANGED <<withdrawal_side, now, investment_plans>>

(* Legacy rows: investments entered with the free-text plan and wallet. *)

\* The catalog the legacy texts are matched against.
TitledForms ==
    {NewInvestmentPlan(title, 100, NoAmount, 180, 30, TRUE, "BTC", TRUE) :
        title \in {"Gold Plan", "Golden"}}

\* The rows the admin enters: with the first plan or none, a legacy text
\* that is absent, blank, matching or matching nothing, and the wallet taken
\* or not while the legacy wallet is set or not.
LegacyForms ==
    {[NewInvestment("u1", plan_id, 500, wallets[1], plan_text, wallets[2])
         EXCEPT !.date_invested = 0] :
        plan_id \in {NoPlan, 1},
        plan_text \in {NoText, "  ", "gold rush", "Bronze"},
        wallets \in {<<NoText, NoText>>, <<NoText, "legacy">>, <<"used", "legacy">>}}

AddTitledPlan == \E plan \in TitledForms : InvestmentPlanAdmin_add(plan)

AddLegacyInvestment == \E row \in LegacyForms : InvestmentAdmin_add(row)

LegacyNext ==
    \/ AddTitledPlan
    \/ AddLegacyInvestment

LegacySpec == Init /\ [][LegacyNext]_vars

(* ------------ the wallet a plan points to, after an investment --------- *)

\* CryptoWalletAdmin's change form: the wallet row is saved with the address
\* typed in (the field may be left empty); nothing else is written.
CryptoWalletAdmin_change(wallet, address) ==
    /\ wallet \in CryptoWallets
    /\ crypto_wallets' = [crypto_wallets EXCEPT ![wallet] = address]
    /\ response' = Response("CryptoWalletAdmin_change", "saved", {}, 0, <<>>)
    /\ UNCHANGED <<withdrawal_requests, userprofile, balances, cancel_inflight,
                   profiled, users, phone_number, now, investment_plans, investments>>

\* InvestmentPlanAdmin's change form, "Crypto Configuration": the plan is
\* saved pointing to another wallet, or to none.
InvestmentPlanAdmin_change(plan_id, wallet) ==
    /\ plan_id \in PlanIds
    /\ wallet \in CryptoWallets \cup {NoWallet}
    /\ investment_plans' = [investment_plans EXCEPT ![plan_id].crypto_wallet = wallet]
    /\ response' = Response("InvestmentPlanAdmin_change", "saved", {}, 0, <<>>)
    /\ UNCHANGED <<withdrawal_side, now, investments>>

\* The plans of this part: active or not, with the wallet or without.
SnapshotForms ==
    {NewInvestmentPlan("Gold", 2, NoAmount, 180, 10, TRUE, wallet, active) :
        wallet \in {NoWallet} \cup CryptoWallets, active \in BOOLEAN}

\* The addresses an admin gives a wallet: the first one, a new one, none.
WalletAddresses == {"addr_BTC", "addr_new", NoText}

AddSnapshotPlan == \E plan \in SnapshotForms : InvestmentPlanAdmin_add(plan)

\* Users post an amount the plans accept, for a plan id that may not exist.
SubmitInvestment ==
    \E u \in Users, plan_id \in 1..(MaxPlans + 1) :
        invest_view(u, "POST", plan_id, PostedNumber(5))

ChangeWalletAddress ==
    \E wallet \in CryptoWallets, address \in WalletAddresses :
        CryptoWalletAdmin_change(wallet, address)

ChangePlanWallet ==
    \E plan_id \in PlanIds, wallet \in CryptoWallets \cup {NoWallet} :
        InvestmentPlanAdmin_change(plan_id, wallet)

SnapshotNext ==
    \/ AddSnapshotPlan
    \/ SubmitInvestment
    \/ ChangeWalletAddress
    \/ ChangePlanWallet

SnapshotSpec == Init /\ [][SnapshotNext]_vars

(* ------------- the Investment changelist and its bulk actions ---------- *)

\* The investments on the changelist: one of u1 in the plan with earnings
\* credited, one of u2 with no plan and none.
EnteredInvestments ==
    {[NewInvestment(entry[1], entry[2], 500, "addr_BTC", NoText, NoText)
         EXCEPT !.date_invested = 0, !.total_earnings = entry[3]] :
        entry \in {<<"u1", 1, 40>>, <<"u2", NoPlan, 0>>}}

AddListedPlan ==
    InvestmentPlanAdmin_add(NewInvestmentPlan("Gold", 2, NoAmount, 180, 10, TRUE, "BTC", TRUE))

AddListedInvestment == \E row \in EnteredInvestments : InvestmentAdmin_add(row)

ChangelistNext ==
    \/ AddListedPlan
    \/ AddListedInvestment
    \/ InvestmentsMarkActive
    \/ InvestmentsMarkCompleted
    \/ InvestmentsMarkCancelled

ChangelistSpec == Init /\ [][ChangelistNext]_vars

(* ============================== claims ================================= *)

\* The statuses the workflow calls open, and the ones it calls terminal.
OpenStatuses == {"pending", "processing"}

TerminalStatuses == {"completed", "rejected", "cancelled"}

\* Row w before and after a step.
Row(w) == withdrawal_requests[w]

RowAfter(w) == withdrawal_requests'[w]

\* C1: a WithdrawalRequest whose status is completed, rejected or cancelled
\* never changes status again, whichever of cancel_withdrawal,
\* approve_withdrawals, reject_withdrawals, mark_as_completed and
\* mark_as_rejected is called on it.
C1_TerminalStatusNeverChanges ==
    [][\A w \in RequestIds :
          Row(w).status \in TerminalStatuses => RowAfter(w).status = Row(w).status]_vars

\* C2: in every reachable state, processed_at of a WithdrawalRequest is set
\* if and only if its status is completed or rejected.
C2_ProcessedAtIffCompletedOrRejected ==
    \A w \in RequestIds :
        (Row(w).processed_at # NoTime) <=> (Row(w).status \in {"completed", "rejected"})

\* C3: approving a request, by mark_as_completed or by the bulk action, is
\* permitted only from pending or processing (from any other status the row
\* stays as it is), and on success sets status completed, stamps processed_at,
\* records the processor in processed_by, and the transaction id when given.
C3_ApproveOnlyFromOpenAndStamps ==
    [][/\ \A w \in RequestIds, by \in ProcessorArgs, tx \in TxArgs :
              mark_as_completed(w, by, tx) =>
                  IF Row(w).status \in OpenStatuses
                  THEN /\ RowAfter(w).status = "completed"
                       /\ RowAfter(w).processed_at = now
                       /\ RowAfter(w).processed_by = by
                       /\ Truthy(tx) => RowAfter(w).transaction_id = tx
                  ELSE RowAfter(w) = Row(w)
       /\ \A selected \in SUBSET RequestIds :
              approve_withdrawals(selected) =>
                  \A w \in selected :
                      IF Row(w).status \in OpenStatuses
                      THEN /\ RowAfter(w).status = "completed"
                           /\ RowAfter(w).processed_at = now
                           /\ RowAfter(w).processed_by \in Admins
                      ELSE RowAfter(w) = Row(w)]_vars

\* C4: rejecting a request, by mark_as_rejected or by the bulk action, is
\* permitted only from pending or processing, and on success sets status
\* rejected, stamps processed_at, records the processor in processed_by and
\* stores a non-empty rejection_reason.
C4_RejectOnlyFromOpenAndStamps ==
    [][/\ \A w \in RequestIds, reason \in ReasonArgs, by \in ProcessorArgs :
              mark_as_rejected(w, reason, by) =>
                  IF Row(w).status \in OpenStatuses
                  THEN /\ RowAfter(w).status = "rejected"
                       /\ RowAfter(w).processed_at = now
                       /\ RowAfter(w).processed_by = by
                       /\ Truthy(RowAfter(w).rejection_reason)
                  ELSE RowAfter(w) = Row(w)
       /\ \A selected \in SUBSET RequestIds :
              reject_withdrawals(selected) =>
                  \A w \in selected :
                      IF Row(w).status \in OpenStatuses
                      THEN /\ RowAfter(w).status = "rejected"
                           /\ RowAfter(w).processed_at = now
                           /\ RowAfter(w).processed_by \in Admins
                           /\ Truthy(RowAfter(w).rejection_reason)
                      ELSE RowAfter(w) = Row(w)]_vars

\* C5: cancel_withdrawal changes a request (to cancelled, and nothing else of
\* it) only when the caller owns it and its status is pending or processing;
\* a request that does not exist or belongs to another user answers not
\* found, one in any other status answers an error, and in both cases the
\* table is unchanged.
C5_CancelOnlyByOwnerFromOpen ==
    [][\A u \in Users, wid \in NamedIds :
          cancel_withdrawal(u, wid) =>
              LET owned == wid \in RequestIds /\ Row(wid).user = u
              IN  /\ ~owned =>
                        /\ response'.outcome = "not_found"
                        /\ withdrawal_requests' = withdrawal_requests
                  /\ (owned /\ Row(wid).status \notin OpenStatuses) =>
                        /\ response'.outcome = "error: cannot be cancelled"
                        /\ withdrawal_requests' = withdrawal_requests
                  /\ withdrawal_requests' # withdrawal_requests =>
                        /\ owned
                        /\ Row(wid).status \in OpenStatuses
                        /\ response'.outcome = "success"
                        /\ withdrawal_requests' =
                               [withdrawal_requests EXCEPT ![wid].status = "cancelled"]]_vars

\* C5's case: the owner's cancel went through next to a request it left alone.
C5_Witness ==
    /\ response.op = "cancel_withdrawal"
    /\ response.outcome = "success"
    /\ \E w \in RequestIds : Row(w).status = "cancelled"
    /\ \E w \in RequestIds : Row(w).status = "completed"

\* C6: cancel_withdrawal, whether it succeeds or is refused, leaves every
\* Amount, Totalearnings and totalwithdraw row as it was.
C6_CancelLeavesBalances ==
    [][\A u \in Users, wid \in NamedIds :
          cancel_withdrawal(u, wid) =>
              /\ amount_rows' = amount_rows
              /\ totalearnings_rows' = totalearnings_rows
              /\ totalwithdraw_rows' = totalwithdraw_rows]_vars

\* C6's case: a cancel succeeded for a user who holds a row in each table.
C6_Witness ==
    /\ response.op = "cancel_withdrawal"
    /\ response.outcome = "success"
    /\ \E w \in RequestIds :
          /\ Row(w).status = "cancelled"
          /\ \E i \in DOMAIN amount_rows : amount_rows[i].user = Row(w).user
          /\ \E i \in DOMAIN totalearnings_rows :
                totalearnings_rows[i].user = Row(w).user
          /\ \E i \in DOMAIN totalwithdraw_rows :
                totalwithdraw_rows[i].user = Row(w).user

\* C7: a withdrawal request is created only for a user whose profile has
\* withdrawal_enabled, with status pending; a submission by a user whose
\* profile has withdrawal_enabled = false is rejected with a policy error that
\* carries the profile's stored reason, and creates no request.
C7_CreateGatedByProfile ==
    [][\A u \in Users :
          withdraw_view(u) =>
              /\ withdrawal_requests' # withdrawal_requests =>
                    /\ userprofile[u].withdrawal_enabled
                    /\ Len(withdrawal_requests') = Len(withdrawal_requests) + 1
                    /\ withdrawal_requests'[Len(withdrawal_requests')].user = u
                    /\ withdrawal_requests'[Len(withdrawal_requests')].status = "pending"
              /\ ~userprofile[u].withdrawal_enabled =>
                    /\ response'.outcome = "policy_error"
                    /\ response'.context =
                           <<TRUE, userprofile[u].withdrawal_disabled_reason>>
                    /\ withdrawal_requests' = withdrawal_requests]_vars

\* C8: withdraw_view completes without error for every authenticated user and
\* hands the caller withdrawal_disabled = not profile.withdrawal_enabled
\* together with the profile's withdrawal_disabled_reason.
C8_WithdrawViewSurfacesGate ==
    [][\A u \in Users :
          withdraw_view(u) =>
              /\ response'.outcome = "rendered"
              /\ Len(response'.context) >= 2
              /\ response'.context[1] = ~userprofile[u].withdrawal_enabled
              /\ response'.context[2] = userprofile[u].withdrawal_disabled_reason]_vars

\* C9: bulk approve over any selected set changes exactly the selected
\* requests whose status is pending or processing, each to completed, leaves
\* every other request as it was, and reports the number of requests it changed.
C9_BulkApproveExactlyOpenOnes ==
    [][\A selected \in SUBSET RequestIds :
          approve_withdrawals(selected) =>
              LET open == {w \in selected : Row(w).status \in OpenStatuses}
                  changed == {w \in RequestIds : RowAfter(w) # Row(w)}
              IN  /\ DOMAIN withdrawal_requests' = RequestIds
                  /\ \A w \in open : RowAfter(w).status = "completed"
                  /\ changed = open
                  /\ response'.count = Cardinality(changed)]_vars

\* C9's case: a bulk approve over a pending and a terminal request reported 1.
C9_Witness ==
    /\ response.op = "approve_withdrawals"
    /\ Cardinality(response.selected) = 2
    /\ response.count = 1
    /\ \E w \in response.selected : Row(w).status = "completed"
    /\ \E w \in response.selected : Row(w).status \in {"cancelled", "rejected"}

\* C10: mark_as_completed on a request that an earlier mark_as_completed has
\* already completed (status completed, processed_at stamped) is a no-op:
\* status, processed_at, processed_by and transaction_id stay as the first
\* call left them.
C10_MarkCompletedTwiceIsNoOp ==
    [][\A w \in RequestIds, by \in ProcessorArgs, tx \in TxArgs :
          (/\ mark_as_completed(w, by, tx)
           /\ Row(w).status = "completed"
           /\ Row(w).processed_at # NoTime) =>
              /\ RowAfter(w).status = Row(w).status
              /\ RowAfter(w).processed_at = Row(w).processed_at
              /\ RowAfter(w).processed_by = Row(w).processed_by
              /\ RowAfter(w).transaction_id = Row(w).transaction_id]_vars

\* C11: cancel, approve and reject are atomic with respect to one another on
\* the same request, in every interleaving of the owner's cancel with the
\* admin's approve or reject: a status written as completed or rejected is
\* never afterwards overwritten with cancelled, nor a cancelled one with
\* completed or rejected.
C11_TransitionsAtomic ==
    [][\A w \in RequestIds :
          /\ Row(w).status \in {"completed", "rejected"} =>
                RowAfter(w).status # "cancelled"
          /\ Row(w).status = "cancelled" =>
                RowAfter(w).status \notin {"completed", "rejected"}]_vars

\* C12: disable_user_withdrawals leaves the profile of every selected
\* request's owner (when the owner has one) with withdrawal_enabled = false
\* and a reason that references the id of a selected request of that owner;
\* it changes no WithdrawalRequest and no profile of a user who owns no
\* selected request.
C12_DisableUserWithdrawals ==
    [][\A selected \in SUBSET RequestIds :
          disable_user_withdrawals(selected) =>
              /\ \A w \in selected :
                    Row(w).user \in profiled =>
                        /\ ~userprofile'[Row(w).user].withdrawal_enabled
                        /\ \E v \in selected :
                              /\ Row(v).user = Row(w).user
                              /\ userprofile'[Row(w).user].withdrawal_disabled_reason
                                    = "Disabled via withdrawal request #" \o ToString(v)
              /\ withdrawal_requests' = withdrawal_requests
              /\ profiled' = profiled
              /\ \A u \in Users :
                    (\A w \in selected : Row(w).user # u) =>
                        userprofile'[u] = userprofile[u]]_vars

\* C12's case: two selected requests of two owners, one requester untouched
\* is impossible with two users, so: both owners disabled, each with a reason
\* naming its own request.
C12_Witness ==
    /\ response.op = "disable_user_withdrawals"
    /\ \E w, v \in response.selected :
          /\ Row(w).user # Row(v).user
          /\ \A x \in {w, v} :
                /\ Row(x).user \in profiled
                /\ ~userprofile[Row(x).user].withdrawal_enabled
                /\ userprofile[Row(x).user].withdrawal_disabled_reason
                      = "Disabled via withdrawal request #" \o ToString(x)

\* C13: in a bulk admin action over a selected set, a failure on one item
\* (an owner with no profile) does not abort the action: every remaining item
\* is processed, the action answers with its message, not an error, and the
\* count it reports is the number of items that succeeded.
C13_BulkActionsBestEffort ==
    [][/\ \A selected \in SUBSET RequestIds :
              disable_user_withdrawals(selected) =>
                  LET succeeded == {w \in selected : Row(w).user \in profiled}
                  IN  /\ \A w \in succeeded :
                            ~userprofile'[Row(w).user].withdrawal_enabled
                      /\ response'.outcome = "WARNING"
                      /\ response'.count = Cardinality(succeeded)
       /\ \A selected \in SUBSET RequestIds :
              approve_withdrawals(selected) =>
                  LET succeeded == {w \in selected : Row(w).status \in OpenStatuses}
                  IN  /\ \A w \in succeeded : RowAfter(w).status = "completed"
                      /\ response'.outcome = "SUCCESS"
                      /\ response'.count = Cardinality(succeeded)
       /\ \A selected \in SUBSET RequestIds :
              reject_withdrawals(selected) =>
                  LET succeeded == {w \in selected : Row(w).status \in OpenStatuses}
                  IN  /\ \A w \in succeeded : RowAfter(w).status = "rejected"
                      /\ response'.outcome = "WARNING"
                      /\ response'.count = Cardinality(succeeded)]_vars

\* C13's case: the item visited first failed (its owner has no profile) and
\* the item after it was still processed; the count is 1 of 2.
C13_Witness ==
    /\ response.op = "disable_user_withdrawals"
    /\ response.count = 1
    /\ \E w, v \in response.selected :
          /\ w < v
          /\ Row(v).user \notin profiled
          /\ Row(w).user \in profiled
          /\ ~userprofile[Row(w).user].withdrawal_enabled
          /\ userprofile[Row(w).user].withdrawal_disabled_reason
                = "Disabled via withdrawal request #" \o ToString(w)

\* C14: after any sequence of invest_view submissions and Investment admin
\* actions, every Investment has a status among PENDING, ACTIVE, COMPLETED and
\* CANCELLED, and has date_completed set only if its status is COMPLETED.
C14_DateCompletedOnlyWhenCompleted ==
    \A i \in InvestmentIds :
        /\ investments[i].status \in INVESTMENT_STATUS_CHOICES
        /\ investments[i].date_completed # NoTime => investments[i].status = "COMPLETED"

\* C15: every Investment invest_view creates has an amount that is at least
\* the minimum_deposit of the plan it references and, whenever that plan's
\* maximum_deposit is set, at most the maximum_deposit.
C15_CreatedAmountWithinPlanRange ==
    [][\A u \in Users, plan_id \in 1..(MaxPlans + 1), posted \in PostedAmounts :
          (invest_view(u, "POST", plan_id, posted)
              /\ Len(investments') = Len(investments) + 1) =>
                LET created == investments'[Len(investments')]
                    plan == investment_plans[created.investment_plan]
                IN  /\ plan.minimum_deposit # NoAmount
                    /\ plan.minimum_deposit <= created.amount
                    /\ plan.maximum_deposit # NoAmount =>
                          created.amount <= plan.maximum_deposit]_vars

\* C16: an invest_view submission with an amount below the plan's minimum,
\* above the plan's maximum, a non-numeric amount, or a plan id that does not
\* exist or is inactive is answered with an error message and changes no
\* table: no Investment is created and no existing record changes.
C16_InvalidSubmissionCreatesNothing ==
    [][\A u \in Users, plan_id \in 1..(MaxPlans + 1), posted \in PostedAmounts :
          (/\ invest_view(u, "POST", plan_id, posted)
           /\ \/ ~ActivePlanExists(plan_id)
              \/ ~posted.numeric
              \/ /\ investment_plans[plan_id].minimum_deposit # NoAmount
                 /\ posted.value < investment_plans[plan_id].minimum_deposit
              \/ /\ investment_plans[plan_id].maximum_deposit # NoAmount
                 /\ posted.value > investment_plans[plan_id].maximum_deposit) =>
                /\ response'.outcome \notin {"success", "rendered"}
                /\ investments' = investments
                /\ investment_plans' = investment_plans
                /\ withdrawal_side' = withdrawal_side]_vars

\* The calendar-date difference between now and the investment's date_invested.
CalendarDaysSince(inv) == (now \div TicksPerDay) - (inv.date_invested \div TicksPerDay)

Max0(n) == IF n > 0 THEN n ELSE 0

\* C17: for an Investment with a resolved plan, days_remaining is 0 when the
\* status is COMPLETED and otherwise max(0, duration - days_elapsed) of the
\* plan's duration, days_elapsed being the calendar-date difference between
\* now and date_invested; a result is never negative.
C17_DaysRemaining ==
    [][\A i \in InvestmentIds :
          (ReadMetrics(i) /\ investments[i].investment_plan # NoPlan) =>
              LET inv == investments[i]
                  duration == investment_plans[inv.investment_plan].investment_duration_days
                  result == response'.context[4]
              IN  /\ inv.status = "COMPLETED" => result = Returns(0, 1)
                  /\ (inv.status # "COMPLETED" /\ duration # NoDuration) =>
                        result = Returns(Max0(duration - CalendarDaysSince(inv)), 1)
                  /\ result.kind = "number" => result.num >= 0]_vars

\* C17's case: invested late on day 0 and read early on day 1, less than a
\* whole day later: one calendar day has elapsed and 9 of 10 days remain.
C17_Witness ==
    /\ response.op = "investment_metrics"
    /\ investments[1].investment_plan # NoPlan
    /\ investments[1].status # "COMPLETED"
    /\ investment_plans[1].investment_duration_days = 10
    /\ investments[1].date_invested = TicksPerDay - 1
    /\ now = TicksPerDay
    /\ response.context[4] = Returns(9, 1)

\* C18: for an Investment with a resolved plan, progress_percentage is 100
\* when the status is COMPLETED and otherwise min(100, 100 * days_elapsed /
\* duration); for every duration the schema admits, 0 and NULL included, it
\* returns a value, and the value never exceeds 100.
C18_ProgressPercentage ==
    [][\A i \in InvestmentIds :
          (ReadMetrics(i) /\ investments[i].investment_plan # NoPlan) =>
              LET inv == investments[i]
                  duration == investment_plans[inv.investment_plan].investment_duration_days
                  result == response'.context[5]
              IN  /\ result.kind = "number"
                  /\ result.num <= 100 * result.den
                  /\ inv.status = "COMPLETED" => result.num = 100 * result.den
                  /\ (inv.status # "COMPLETED" /\ duration # NoDuration /\ duration > 0) =>
                        IF CalendarDaysSince(inv) < duration
                        THEN result.num * duration = 100 * CalendarDaysSince(inv) * result.den
                        ELSE result.num = 100 * result.den]_vars

\* C19: as the clock advances for a non-completed Investment with a fixed
\* plan, days_remaining never increases and progress_percentage never
\* decreases; with duration 10, elapsed 0 gives progress 0 and remaining 10,
\* elapsed 10 gives progress 100 and remaining 0, elapsed 15 gives progress
\* 100 and remaining 0.
C19_MetricsMonotonic ==
    /\ [][\A i \in InvestmentIds :
            (/\ investments' = investments
             /\ investment_plans' = investment_plans
             /\ investments[i].investment_plan # NoPlan
             /\ investments[i].status # "COMPLETED") =>
                LET remaining == days_remaining(investments[i])
                    remaining_after == days_remaining(investments[i])'
                    progress == progress_percentage(investments[i])
                    progress_after == progress_percentage(investments[i])'
                IN  /\ remaining.kind = "number" =>
                          /\ remaining_after.kind = "number"
                          /\ remaining_after.num <= remaining.num
                    /\ progress.kind = "number" =>
                          /\ progress_after.kind = "number"
                          /\ progress.num * progress_after.den
                                <= progress_after.num * progress.den]_vars
    /\ [](\A i \in InvestmentIds :
            (/\ investments[i].investment_plan # NoPlan
             /\ investments[i].status # "COMPLETED"
             /\ investment_plans[investments[i].investment_plan].investment_duration_days = 10) =>
                LET remaining == days_remaining(investments[i])
                    progress == progress_percentage(investments[i])
                IN  /\ CalendarDaysSince(investments[i]) = 0 =>
                          remaining = Returns(10, 1) /\ progress.num = 0
                    /\ CalendarDaysSince(investments[i]) = 10 =>
                          remaining = Returns(0, 1) /\ progress.num = 100 * progress.den
                    /\ CalendarDaysSince(investments[i]) = 15 =>
                          remaining = Returns(0, 1) /\ progress.num = 100 * progress.den)

\* C19's case: 15 days into a 10-day plan, not completed, the metrics read
\* as remaining 0 and progress 100.
C19_Witness ==
    /\ response.op = "investment_metrics"
    /\ investments[1].investment_plan # NoPlan
    /\ investments[1].status # "COMPLETED"
    /\ investment_plans[1].investment_duration_days = 10
    /\ CalendarDaysSince(investments[1]) = 15
    /\ response.context[4] = Returns(0, 1)
    /\ response.context[5] = Returns(100, 1)

\* C20: for an Investment with no resolved plan, each of daily_earnings,
\* expected_total_earnings, expected_total_return, days_remaining and
\* progress_percentage returns None and does not raise, whatever the amount
\* and the status.
C20_NoPlanMetricsAreNone ==
    [][\A i \in InvestmentIds :
          (ReadMetrics(i) /\ investments[i].investment_plan = NoPlan) =>
              \A k \in 1..5 : response'.context[k].kind = "None"]_vars

\* C20's case: an investment with an amount and no plan, its metrics read.
C20_Witness ==
    /\ response.op = "investment_metrics"
    /\ investments[1].investment_plan = NoPlan
    /\ investments[1].amount # NoAmount
    /\ \A k \in 1..5 : response.context[k].kind = "None"

\* C21: the Plan derived metrics never raise: total_return_percentage is r*d,
\* or None when rate or duration is missing; estimated_total_return is
\* (r/100 * m) * d plus m when deposit_return is true, or None when rate,
\* minimum or duration is missing; investment_range_display is "N/A" when the
\* minimum is unset.  For min 100, rate 1.8, duration 30 and deposit_return
\* true the estimated total return is 154.
C21_PlanMetrics ==
    [][\A p \in PlanIds :
          ReadPlanMetrics(p) =>
              LET plan == investment_plans[p]
                  r == plan.daily_earnings_percentage
                  d == plan.investment_duration_days
                  m == plan.minimum_deposit
                  display == response'.context[1]
                  percentage == response'.context[2]
                  estimate == response'.context[3]
              IN  /\ percentage.kind # "raises" /\ estimate.kind # "raises"
                  /\ (r = NoRate \/ d = NoDuration) <=> percentage.kind = "None"
                  /\ (r # NoRate /\ d # NoDuration) =>
                        percentage.num * 100 = r * d * percentage.den
                  /\ (r = NoRate \/ d = NoDuration \/ m = NoAmount) <=> estimate.kind = "None"
                  /\ (r # NoRate /\ d # NoDuration /\ m # NoAmount) =>
                        /\ estimate.den = 10000
                        /\ estimate.num =
                              r * m * d + (IF plan.deposit_return THEN 10000 * m ELSE 0)
                  /\ m = NoAmount => display = "N/A"
                  /\ (m = 100 /\ r = 180 /\ d = 30 /\ plan.deposit_return) =>
                        estimate.num = 154 * estimate.den]_vars

\* C21's case: the metrics of the plan min 100, rate 1.8, duration 30 with
\* return of the deposit, read: 154.
C21_Witness ==
    /\ response.op = "plan_metrics"
    /\ \E p \in response.selected :
          /\ investment_plans[p].minimum_deposit = 100
          /\ investment_plans[p].maximum_deposit = NoAmount
          /\ investment_plans[p].daily_earnings_percentage = 180
          /\ investment_plans[p].investment_duration_days = 30
          /\ investment_plans[p].deposit_return
    /\ response.context[1] = "$100+"
    /\ response.context[3].num = 154 * response.context[3].den

\* C22: for an Investment with amount a and a resolved plan of rate r percent
\* and duration d, daily_earnings is (r/100)*a, expected_total_earnings is
\* daily_earnings*d, and expected_total_return is expected_total_earnings + a
\* when the plan returns the deposit and expected_total_earnings otherwise;
\* with a = 500, r = 1.8, d = 30 and return of the deposit: 9, 270 and 770.
C22_InvestmentEarnings ==
    [][\A i \in InvestmentIds :
          (/\ ReadMetrics(i)
           /\ investments[i].investment_plan # NoPlan
           /\ investments[i].amount # NoAmount
           /\ investment_plans[investments[i].investment_plan].daily_earnings_percentage # NoRate
           /\ investment_plans[investments[i].investment_plan].investment_duration_days
                 # NoDuration) =>
              LET plan == investment_plans[investments[i].investment_plan]
                  a == investments[i].amount
                  r == plan.daily_earnings_percentage
                  d == plan.investment_duration_days
                  daily == response'.context[1]
                  earnings == response'.context[2]
                  total == response'.context[3]
              IN  /\ daily.kind = "number" /\ daily.den = 10000 /\ daily.num = r * a
                  /\ earnings.kind = "number" /\ earnings.den = 10000
                  /\ earnings.num = r * a * d
                  /\ total.kind = "number" /\ total.den = 10000
                  /\ total.num = r * a * d + (IF plan.deposit_return THEN 10000 * a ELSE 0)
                  /\ (a = 500 /\ r = 180 /\ d = 30 /\ plan.deposit_return) =>
                        /\ daily.num = 9 * daily.den
                        /\ earnings.num = 270 * earnings.den
                        /\ total.num = 770 * total.den]_vars

\* C22's case: 500 invested at 1.8 percent for 30 days with return of the
\* deposit, read: 9 a day, 270 earned, 770 returned.
C22_Witness ==
    /\ response.op = "investment_metrics"
    /\ investments[1].investment_plan # NoPlan
    /\ investments[1].amount = 500
    /\ investment_plans[1].daily_earnings_percentage = 180
    /\ investment_plans[1].investment_duration_days = 30
    /\ investment_plans[1].deposit_return
    /\ response.context[1] = Returns(90000, 10000)
    /\ response.context[2] = Returns(2700000, 10000)
    /\ response.context[3] = Returns(7700000, 10000)

\* C23: after any sequence of user creations (with their signal handlers),
\* signup_view and profile updates, every user has exactly one UserProfile
\* (and no profile is without its user), and a profile no admin action has
\* touched has withdrawal_enabled = true.
C23_EveryUserHasOneEnabledProfile ==
    /\ profiled = users
    /\ \A u \in users : userprofile[u].withdrawal_enabled

\* C23's case: one user signed up, the other was created outside signup_view,
\* and a profile update has stored a new phone number.
C23_Witness ==
    /\ users = Users
    /\ profiled = Users
    /\ response.op = "profile_view"
    /\ response.outcome = "redirect: profile"
    /\ \E u \in Users : phone_number[u] \in ValidPhones
    /\ \E u \in Users : phone_number[u] = ""

\* C24: no operation on an existing WithdrawalRequest (cancel_withdrawal,
\* approve_withdrawals, reject_withdrawals, disable_user_withdrawals,
\* mark_as_completed, mark_as_rejected) changes its user, amount,
\* withdrawal_method or account_details.
C24_RequestDetailsImmutable ==
    [][\A w \in RequestIds :
          /\ w \in DOMAIN withdrawal_requests'
          /\ RowAfter(w).user = Row(w).user
          /\ RowAfter(w).amount = Row(w).amount
          /\ RowAfter(w).withdrawal_method = Row(w).withdrawal_method
          /\ RowAfter(w).account_details = Row(w).account_details]_vars

\* C24's case: a request that was cancelled by its owner, then rejected and
\* completed through the model methods, its owner disabled through it, next
\* to one the bulk approval completed: each still as it was submitted.
C24_Witness ==
    /\ response.op = "mark_as_completed"
    /\ \E w, v \in RequestIds :
          /\ w # v
          /\ Row(w).status = "completed"
          /\ Row(w).rejection_reason = "fraud"
          /\ ~userprofile[Row(w).user].withdrawal_enabled
          /\ userprofile[Row(w).user].withdrawal_disabled_reason
                = "Disabled via withdrawal request #" \o ToString(w)
          /\ Row(v).status = "completed"
          /\ Row(v).processed_by = NoUser
          /\ \A x \in {w, v} :
                /\ Row(x).user \in Users
                /\ Row(x).amount \in RequestAmounts
                /\ Row(x).withdrawal_method \in WITHDRAWAL_METHOD_CHOICES
                /\ Row(x).account_details = "acct"

\* The views that read a user's balance, each having answered for user u.
BalanceWasRead(u) ==
    \/ dashboard(u)
    \/ profile_view(u, "GET", "")
    \/ \E method \in {"GET", "POST"}, form_valid \in BOOLEAN :
          change_password(u, method, form_valid) /\ response'.outcome = "rendered"
    \/ withdraw_view(u)

\* C25: a user's balance record (Amount, and likewise Totalearnings and
\* totalwithdraw) is created on the first read: after dashboard,
\* profile_view, change_password or withdraw_view has read the balance of a
\* user who had no record, a record for that user exists; and no user ever
\* has more than one record in a table.
C25_BalanceCreatedOnFirstRead ==
    /\ [][\A u \in Users :
            BalanceWasRead(u) =>
                /\ RowsOf(amount_rows', u) # {}
                /\ response'.op # "withdraw_view" =>
                      /\ RowsOf(totalearnings_rows', u) # {}
                      /\ RowsOf(totalwithdraw_rows', u) # {}]_vars
    /\ [](\A u \in Users :
            /\ Cardinality(RowsOf(amount_rows, u)) <= 1
            /\ Cardinality(RowsOf(totalearnings_rows, u)) <= 1
            /\ Cardinality(RowsOf(totalwithdraw_rows, u)) <= 1)

C27_InvestmentSnapshot ==
    [][/\ \A u \in Users, plan_id \in 1..(MaxPlans + 1) :
            (invest_view(u, "POST", plan_id, PostedNumber(5))
                /\ investments' # investments) =>
                LET created == investments'[Len(investments')]
                IN  /\ Len(investments') = Len(investments) + 1
                    /\ \A i \in InvestmentIds : investments'[i] = investments[i]
                    /\ plan_id \in PlanIds
                    /\ investment_plans[plan_id].is_active
                    /\ created.investment_plan = plan_id
                    /\ created.user = u
                    /\ created.status = "PENDING"
                    /\ created.date_completed = NoTime
                    /\ investment_plans[plan_id].crypto_wallet \in CryptoWallets
                    /\ created.wallet_address_used =
                          crypto_wallets[investment_plans[plan_id].crypto_wallet]
       /\ (crypto_wallets' # crypto_wallets \/ investment_plans' # investment_plans) =>
              /\ Len(investments') = Len(investments)
              /\ \A i \in InvestmentIds :
                    investments'[i].wallet_address_used = investments[i].wallet_address_used
      ]_vars

\* C27's case: an investment made while the plan's wallet had its first
\* address and one made after the wallet got a new address both keep what
\* they took, now that the plan points to no wallet at all.
C27_Witness ==
    /\ response.op = "InvestmentPlanAdmin_change"
    /\ crypto_wallets["BTC"] = "addr_new"
    /\ \E i, j \in InvestmentIds :
          /\ investments[i].wallet_address_used = "addr_BTC"
          /\ investments[i].status = "PENDING"
          /\ investments[i].date_completed = NoTime
          /\ investments[j].wallet_address_used = "addr_new"
          /\ investments[j].investment_plan = investments[i].investment_plan
          /\ investment_plans[investments[j].investment_plan].crypto_wallet = NoWallet

\* What a bulk action of the Investment admin may do to the table: the rows
\* stay the same rows, each keeps everything but status and date_completed,
\* the unselected ones keep those too, and the selected ones get `st`.
OnlyStatusChanged(selected, st) ==
    /\ DOMAIN investments' = DOMAIN investments
    /\ \A i \in InvestmentIds :
          /\ investments'[i].user = investments[i].user
          /\ investments'[i].investment_plan = investments[i].investment_plan
          /\ investments'[i].amount = investments[i].amount
          /\ investments'[i].wallet_address_used = investments[i].wallet_address_used
          /\ investments'[i].total_earnings = investments[i].total_earnings
          /\ investments'[i].date_invested = investments[i].date_invested
          /\ investments'[i].plan = investments[i].plan
          /\ investments'[i].wallet_address = investments[i].wallet_address
          /\ i \notin selected => investments'[i] = investments[i]
          /\ i \in selected => investments'[i].status = st
    /\ response'.count = Cardinality(selected)
    /\ investment_plans' = investment_plans

\* C28: mark_as_active, mark_as_completed and mark_as_cancelled change only
\* the status of the selected investments, and mark_as_completed their
\* date_completed as well (to the time of the action): user,
\* investment_plan, amount, wallet_address_used and total_earnings of every
\* investment stay, unselected investments stay as they are, and the count
\* reported is the number of selected investments.
C28_BulkActionsChangeOnlyStatus ==
    [][\A selected \in SUBSET InvestmentIds :
          /\ InvestmentAdmin_mark_as_active(selected) =>
                /\ OnlyStatusChanged(selected, "ACTIVE")
                /\ \A i \in selected :
                      investments'[i].date_completed = investments[i].date_completed
          /\ InvestmentAdmin_mark_as_completed(selected) =>
                /\ OnlyStatusChanged(selected, "COMPLETED")
                /\ \A i \in selected : investments'[i].date_completed = now
          /\ InvestmentAdmin_mark_as_cancelled(selected) =>
                /\ OnlyStatusChanged(selected, "CANCELLED")
                /\ \A i \in selected :
                      investments'[i].date_completed = investments[i].date_completed
      ]_vars

\* C28's case: of two investments only the first was selected and cancelled;
\* it keeps its plan, amount and credited earnings, and the other, completed
\* before, is as it was.
C28_Witness ==
    /\ response.op = "mark_as_cancelled"
    /\ response.selected = {1}
    /\ response.count = 1
    /\ Len(investments) = 2
    /\ investments[1].status = "CANCELLED"
    /\ investments[1].user = "u1"
    /\ investments[1].investment_plan = 1
    /\ investments[1].total_earnings = 40
    /\ investments[2].status = "COMPLETED"
    /\ investments[2].date_completed = now
    /\ investments[2].user = "u2"

====
